---- MODULE Spec2Model ----
(***************************************************************************)
(* The eight variants of the HaloTasker chat proxy (POST /api/chat):       *)
(*                                                                         *)
(*   "cost"      src/server.js 1-187        cost tracking, Opus fallback   *)
(*   "plain"     src/server.js 189-315      always-200, fixed model        *)
(*   "stream"    src/unnamed/part_000 1-201 server-sent-event streaming    *)
(*   "multipart" src/unnamed/part_000 203-387  multer uploads, truncated   *)
(*   "modes"     src/unnamed/part_001       thinking modes, attachments    *)
(*   "alias"     src/unnamed/part_002       friendly model aliases         *)
(*   "multicost" src/unnamed/part_003       multer uploads, cost           *)
(*   "hardened"  src/unnamed/part_004       placeholder content            *)
(*                                                                         *)
(* JavaScript values are tagged records.  A string is the sequence of its  *)
(* characters; money is an integer number of 1e-8 USD (so that every       *)
(* per-token price of the price tables is an integer); NaN is a value of   *)
(* its own.                                                                *)
(***************************************************************************)
EXTENDS Integers, Sequences, FiniteSets, TLC

VARIABLES
    variant,    \* which of the eight servers this process runs
    pc,         \* position of the request handler: idle, await, fallback, done
    req,        \* the request being handled (body and uploaded files)
    sel,        \* the handler's local selectedModel / model / mode.model
    calls,      \* the upstream calls made for the current request, in order
    outcomes,   \* how each finished upstream call ended: a response or an error
    res,        \* the response sent for the current request
    env,        \* the process environment: the ALLOW_OPUS feature flag
    client,     \* the figures the client passes in (sessionCost, balance), the
                \* number of its finished requests, whether the figures are
                \* those of a response (echo), and whether it has closed the
                \* connection of the request in hand (gone)
    fn          \* the pure-function specifications' input and output

vars == <<variant, env, pc, req, sel, calls, outcomes, res, client, fn>>

-----------------------------------------------------------------------------
(* JavaScript values                                                       *)

Undef == [t |-> "undefined"]
Null == [t |-> "null"]
NaN == [t |-> "NaN"]
Str(s) == [t |-> "string", s |-> s]
Num(n) == [t |-> "number", n |-> n]
Arr(a) == [t |-> "array", a |-> a]
Turn(r, c) == [t |-> "object", role |-> r, content |-> c]

IsStr(x) == x.t = "string"
IsNum(x) == x.t = "number"
IsArr(x) == x.t = "array"
IsObj(x) == x.t = "object"

\* ToBoolean: undefined, null, NaN, "" and 0 are falsy; objects and arrays are truthy
Truthy(x) ==
    CASE x.t = "undefined" -> FALSE
      [] x.t = "null" -> FALSE
      [] x.t = "NaN" -> FALSE
      [] x.t = "string" -> x.s # <<>>
      [] x.t = "number" -> x.n # 0
      [] OTHER -> TRUE

\* a || b
Or(a, b) == IF Truthy(a) THEN a ELSE b

\* String.prototype.trim on a sequence of characters
RECURSIVE TrimStart(_)
TrimStart(s) == IF s # <<>> /\ Head(s) = " " THEN TrimStart(Tail(s)) ELSE s

RECURSIVE TrimEnd(_)
TrimEnd(s) ==
    IF s # <<>> /\ s[Len(s)] = " " THEN TrimEnd(SubSeq(s, 1, Len(s) - 1)) ELSE s

trim(s) == TrimEnd(TrimStart(s))

\* Array.prototype.filter
Filter(a, Keep(_)) == SelectSeq(a, Keep)

\* Array.prototype.map
Map(a, F(_)) == [k \in 1..Len(a) |-> F(a[k])]

\* Array.prototype.slice(-n)
SliceLast(a, n) == IF Len(a) <= n THEN a ELSE SubSeq(a, Len(a) - n + 1, Len(a))

\* String.prototype.slice(0, n)
SliceFirst(s, n) == IF Len(s) <= n THEN s ELSE SubSeq(s, 1, n)

\* String(x) of the values a history turn can hold: the one number the inputs
\* hold, 7, prints as "7"; an array of content blocks prints as
\* "[object Object]", the one character "O" here
String(x) ==
    CASE x.t = "string" -> x.s
      [] x.t = "number" -> <<"7">>
      [] x.t = "array" -> IF x.a = <<>> THEN <<>> ELSE <<"O">>
      [] OTHER -> <<"?">>

\* the marker of a thrown exception (TypeError, SyntaxError)
THROW == [t |-> "throw"]

\* content blocks of the upstream message format; text holds a JavaScript value
TextBlock(x) == [type |-> "text", text |-> x]
ImageBlock(mime, data) ==
    [type |-> "image", source |-> [type |-> "base64", media_type |-> mime, data |-> data]]

-----------------------------------------------------------------------------
(* Configuration                                                           *)

OPUS == "claude-opus-4-6"
SONNET == "claude-3-5-sonnet-20241022"
HAIKU == "claude-3-haiku-20240307"

\* MODELS of the cost, multipart, multicost and hardened variants
MODELS == {OPUS, SONNET, HAIKU}

DEFAULT_MODEL == SONNET

\* PRICING, USD per million tokens written in cents: one token at a price of
\* c cents per million costs c units of 1e-8 USD
PRICING ==
    (OPUS :> [t |-> "object", input |-> Num(500), output |-> Num(2500)]) @@
    (SONNET :> [t |-> "object", input |-> Num(300), output |-> Num(1500)]) @@
    (HAIKU :> [t |-> "object", input |-> Num(25), output |-> Num(125)])

\* the default of `balance` in the cost variant, 10 USD
DEFAULT_BALANCE == 1000000000

\* CONFIG.maxHistoryMessages (50) and CONFIG.maxMessageLength (32000) of the
\* stream variant, scaled to the lengths the model enumerates
maxHistoryMessages == 2
maxMessageLength == 2

\* the character budgets of a document attachment: slice(0, 12000) in the
\* multipart and multicost variants, slice(0, 15000) in the modes variant, scaled
fileSliceChars == 2
attachSliceChars == 2

\* multer's fileSize limit, in MiB
FILE_SIZE_LIMIT == 10

USER == Str(<<"user">>)
ASSISTANT == Str(<<"assistant">>)

-----------------------------------------------------------------------------
(* Cost estimation                                                         *)

\* The usage reports at which the IEEE-754 double (i/1e6)*pi + (o/1e6)*po is
\* an exact decimal tie at the fifth place and the double lies below it, so
\* that toFixed(4) rounds down: Opus with 2 output tokens gives
\* 4.9999999999999996e-05, not 0.00005.  At the other ties of the enumerated
\* token counts (Opus with 6 output tokens and 0 or 1000 input tokens, Haiku
\* with 40 output tokens, or 200 or 1000 input tokens) the double lies above.
DoubleBelowTie ==
    {<<OPUS, 0, 2>>, <<OPUS, 200, 2>>, <<OPUS, 200, 6>>, <<OPUS, 1000, 2>>}

\* toFixed4 as it would be if the amount were cut, not rounded, to 4 places
toFixed4_truncating(x, below) == (x \div 10000) * 10000

\* Number(x.toFixed(4)) of a non-negative amount x in units of 1e-8 USD:
\* the nearest multiple of 1e-4 USD; a tie goes up unless the double is below it
toFixed4(x, below) ==
    LET q == x \div 10000
        r == x % 10000
    IN  IF r > 5000 \/ (r = 5000 /\ ~below) THEN (q + 1) * 10000 ELSE q * 10000

\* (tokens / 1_000_000) * price; arithmetic on undefined is NaN
TokenCost(tokens, price) ==
    IF IsNum(tokens) /\ IsNum(price) THEN Num(tokens.n * price.n) ELSE NaN

\* a + b of two JavaScript numbers
Plus(a, b) == IF IsNum(a) /\ IsNum(b) THEN Num(a.n + b.n) ELSE NaN

\* a - b
Minus(a, b) == IF IsNum(a) /\ IsNum(b) THEN Num(a.n - b.n) ELSE NaN

\* Math.max(0, a): NaN if a is NaN
Max0(a) == IF IsNum(a) THEN (IF a.n > 0 THEN a ELSE Num(0)) ELSE NaN

\* Number(x.toFixed(4)) of a JavaScript number; a negative amount rounds as
\* its absolute value does; NaN.toFixed(4) is "NaN"
Fixed4(a, below) ==
    IF ~IsNum(a) THEN NaN
    ELSE IF a.n >= 0 THEN Num(toFixed4(a.n, below))
         ELSE Num(0 - toFixed4(0 - a.n, below))

\* the property key a value is when it indexes a table (PRICING[model]); a
\* model identifier is a string of one element
PropertyKey(v) ==
    CASE IsStr(v) /\ Len(v.s) = 1 -> v.s[1]
      [] v.t = "undefined" -> "undefined"
      [] OTHER -> "?"

\* the names every object literal inherits from Object.prototype
ObjectPrototypeKeys == {"constructor"}

\* an inherited member: a function, which is truthy and has none of the
\* fields of a table entry
FunctionObject == [t |-> "function"]

\* table[key] of an object literal: its own entry, an inherited member, or undefined
Lookup(table, key) ==
    IF key \in DOMAIN table THEN table[key]
    ELSE IF key \in ObjectPrototypeKeys THEN FunctionObject
    ELSE Undef

\* entry.field
Get(entry, field) == IF IsObj(entry) THEN entry[field] ELSE Undef

\* estimateCost(model, usage), the same function in the cost and multicost variants
estimateCost(model, usage) ==
    LET price == Lookup(PRICING, PropertyKey(model))
    IN  IF ~Truthy(usage) \/ ~Truthy(price) THEN Num(0)
        ELSE LET input == TokenCost(usage.input_tokens, Get(price, "input"))
                 output == TokenCost(usage.output_tokens, Get(price, "output"))
                 below == /\ IsNum(usage.input_tokens)
                          /\ IsNum(usage.output_tokens)
                          /\ <<PropertyKey(model), usage.input_tokens.n,
                               usage.output_tokens.n>> \in DoubleBelowTie
             IN  Fixed4(Plus(input, output), below)

\* Number(v) of a value of the request body
ToNumber(v) ==
    CASE v.t = "number" -> v
      [] v.t = "null" -> Num(0)
      [] OTHER -> NaN

-----------------------------------------------------------------------------
(* History handling                                                        *)

\* the filter callback of sanitizeHistory (cost variant)
sanitizeKeep(h) ==
    /\ IsObj(h)
    /\ (h.role = USER \/ h.role = ASSISTANT)
    /\ IsStr(h.content)
    /\ Len(trim(h.content.s)) # 0

\* the map callback of sanitizeHistory
sanitizeMap(h) == Turn(h.role, Arr(<<TextBlock(h.content)>>))

\* sanitizeHistory(history = []) of the cost variant
sanitizeHistory(history) ==
    IF ~IsArr(history) THEN <<>>
    ELSE Map(Filter(history.a, sanitizeKeep), sanitizeMap)

\* the inline history filter of the plain, modes and alias variants
inlineKeep(m) ==
    /\ IsObj(m)
    /\ (m.role = USER \/ m.role = ASSISTANT)
    /\ IsStr(m.content)

\* ...Array.isArray(history) ? history.filter(...) : []
inlineHistory(history) ==
    IF IsArr(history) THEN Filter(history.a, inlineKeep) ELSE <<>>

\* the filter callback of sanitizedHistory (stream variant)
streamKeep(msg) ==
    /\ IsObj(msg)
    /\ msg.role \in {USER, ASSISTANT}
    /\ IsStr(msg.content)
    /\ Len(msg.content.s) <= maxMessageLength

\* streamMap as it would be if it wrapped the text in a content block, as the
\* map callback of sanitizeHistory does
streamMap_blocks(msg) == Turn(msg.role, Arr(<<TextBlock(Str(trim(msg.content.s)))>>))

\* the map callback of sanitizedHistory
streamMap(msg) == Turn(msg.role, Str(trim(msg.content.s)))

\* const sanitizedHistory = Array.isArray(history) ? ... : [] of the stream variant
sanitizedHistory(history) ==
    IF IsArr(history)
    THEN Map(Filter(SliceLast(history.a, maxHistoryMessages), streamKeep), streamMap)
    ELSE <<>>

\* the filter callback of normaliseHistory (hardened variant)
normaliseKeep(h) == IsObj(h) /\ Truthy(h.role) /\ Truthy(h.content)

\* the map callback of normaliseHistory
normaliseMap(h) ==
    Turn(IF h.role = ASSISTANT THEN ASSISTANT ELSE USER,
         Arr(<<TextBlock(Str(String(h.content)))>>))

\* normaliseHistory(history) of the hardened variant
normaliseHistory(history) ==
    IF ~IsArr(history) THEN <<>>
    ELSE Map(Filter(history.a, normaliseKeep), normaliseMap)

\* for (const h of history) messages.push({role: h.role, content: [...]}) of
\* the multipart and multicost variants: no turn is dropped; iterating a value
\* that is no array, or reading .role of null, throws
pushHistory(history) ==
    IF ~IsArr(history) THEN THROW
    ELSE IF \E k \in 1..Len(history.a) : ~IsObj(history.a[k]) THEN THROW
    ELSE Arr([k \in 1..Len(history.a) |->
                 Turn(history.a[k].role, Arr(<<TextBlock(history.a[k].content)>>))])

\* req.body.history ? JSON.parse(req.body.history) : [] of the multer variants.
\* The field is absent, or a string: text that parses to a value, or text
\* that does not parse ("bad"), for which JSON.parse throws
parseHistory(field) ==
    IF ~Truthy(field) THEN Arr(<<>>)
    ELSE IF field.t = "json" THEN field.value
    ELSE THROW

-----------------------------------------------------------------------------
(* Content assembly                                                        *)

\* the blocks of all attachments, in input order
RECURSIVE Concat(_)
Concat(ss) == IF ss = <<>> THEN <<>> ELSE Head(ss) \o Concat(Tail(ss))

\* buffer.toString("base64"): an encoding of the bytes, never the bytes themselves
Base64(buffer) == <<"base64:">> \o buffer

\* buffer.toString("utf8"): the byte "\xff" is no UTF-8 and decodes to U+FFFD
Utf8(buffer) == [k \in 1..Len(buffer) |-> IF buffer[k] = "\\xff" THEN "U+FFFD" ELSE buffer[k]]

\* String.prototype.startsWith("image/") of a MIME type, a string whose first
\* element is its type with the slash
IsImageMime(mimetype) == mimetype.s # <<>> /\ Head(mimetype.s) = "image/"

\* one pass of the loop body of buildUserContent (multipart and multicost
\* variants): the blocks pushed for one uploaded file
fileBlocks(file) ==
    IF IsImageMime(file.mimetype)
    THEN <<ImageBlock(file.mimetype, Base64(file.buffer))>>
    ELSE <<TextBlock(Str(<<"Attached file (">> \o file.originalname.s \o <<"):\n">>
                         \o SliceFirst(Utf8(file.buffer), fileSliceChars)))>>

\* buildUserContent({ message, files }) of the multipart and multicost variants;
\* message?.trim() throws for a message that is no string
buildUserContent(message, files) ==
    IF ~IsStr(message) THEN THROW
    ELSE Arr((IF trim(message.s) # <<>> THEN <<TextBlock(message)>> ELSE <<>>)
             \o (IF IsArr(files) /\ Len(files.a) # 0
                 THEN Concat([k \in 1..Len(files.a) |-> fileBlocks(files.a[k])])
                 ELSE <<>>))

\* safeText(text) of the hardened variant
safeText(text) ==
    IF IsStr(text) /\ trim(text.s) # <<>> THEN Str(trim(text.s)) ELSE Null

\* one pass of the loop body of the hardened buildUserContent
hardenedFileBlocks(file) ==
    IF IsStr(file.mimetype) /\ IsImageMime(file.mimetype)
    THEN <<ImageBlock(file.mimetype, Base64(file.buffer))>>
    ELSE <<>>

\* buildUserContent(message, files) of the hardened variant
hardenedUserContent(message, files) ==
    LET text == safeText(message)
        content == (IF Truthy(text) THEN <<TextBlock(text)>> ELSE <<>>)
                   \o (IF IsArr(files)
                       THEN Concat([k \in 1..Len(files.a) |-> hardenedFileBlocks(files.a[k])])
                       ELSE <<>>)
    IN  Arr(IF Len(content) = 0 THEN <<TextBlock(Str(<<" ">>))>> ELSE content)

\* the first `if` of the forEach callback of the modes variant: vision
attachImage(file) ==
    IF Truthy(file.type) /\ IsImageMime(file.type) /\ Truthy(file.base64)
    THEN <<ImageBlock(file.type, file.base64)>>
    ELSE <<>>

\* the second `if` of the callback: text documents
attachText(file) ==
    IF Truthy(file.content) /\ IsStr(file.content)
    THEN <<TextBlock(Str(<<"\n\n--- ">> \o String(file.name) \o <<" ---\n">>
                         \o SliceFirst(file.content.s, attachSliceChars)))>>
    ELSE <<>>

\* the forEach callback of the modes variant: both `if`s run for every attachment
attachBlocks(file) == attachImage(file) \o attachText(file)

\* const content = [{type: "text", text: message}] and the attachments loop of
\* the modes variant; file.type of null, and startsWith of a type that is no
\* string, throw
modesContent(message, attachments) ==
    IF ~IsArr(attachments) THEN Arr(<<TextBlock(message)>>)
    ELSE IF \E k \in 1..Len(attachments.a) :
                \/ ~IsObj(attachments.a[k])
                \/ (Truthy(attachments.a[k].type) /\ ~IsStr(attachments.a[k].type))
         THEN THROW
    ELSE Arr(<<TextBlock(message)>>
             \o Concat([k \in 1..Len(attachments.a) |-> attachBlocks(attachments.a[k])]))

-----------------------------------------------------------------------------
(* Bounds and the inputs drawn                                             *)

\* the longest history array a request carries
MaxHist == 1

\* the number of successive requests of one client
MaxCalls == 2

\* the longest attachments array and files array of a request
MaxFiles == 1

Variants ==
    {"cost", "plain", "stream", "multipart", "modes", "alias", "multicost", "hardened"}

\* message texts: absent, empty, blank, plain, padded, over the stream
\* variant's length limit, and a value that is no string
Messages ==
    {Undef, Str(<<>>), Str(<<" ">>), Str(<<"a">>), Str(<<" ", "a">>),
     Str(<<"a", "a", "a">>), Num(7)}

SYSTEM == Str(<<"system">>)

\* elements of a history array
HistTurns ==
    {Null, Turn(USER, Str(<<"a">>)), Turn(ASSISTANT, Str(<<" ", "a">>)),
     Turn(SYSTEM, Str(<<"a">>)), Turn(USER, Num(7)), Turn(USER, Str(<<" ">>))}

SeqsUpTo(S, n) == UNION {[1..k -> S] : k \in 0..n}

\* history values of a JSON body
Histories == {Undef, Num(7)} \cup {Arr(a) : a \in SeqsUpTo(HistTurns, MaxHist)}

\* model selectors of the variants that read req.body.model
ModelSelectors ==
    {Undef, Str(<<OPUS>>), Str(<<HAIKU>>), Str(<<"gpt-4">>), Str(<<"constructor">>)}

\* token counts of a usage report
InTokens == {0, 200, 1000}
OutTokens == {0, 2, 6, 40}

Usage(i, o) == [t |-> "object", input_tokens |-> i, output_tokens |-> o]

\* usage reports: every pair of counts, one lacking input_tokens, and none
AllUsages ==
    {Undef, Usage(Undef, Num(40)), Usage(Num(1000), Undef)}
        \cup {Usage(Num(i), Num(o)) : i \in InTokens, o \in OutTokens}

\* the usage reports of the upstream responses of the handler specification
Usages == {Undef, Usage(Undef, Num(40)), Usage(Num(1000), Num(40)), Usage(Num(0), Num(2))}

\* upstream responses: a text reply or no content block, with a usage report
Responses ==
    {[content |-> c, usage |-> u, stop_reason |-> "end_turn"] :
        c \in {Arr(<<TextBlock(Str(<<"r">>))>>), Arr(<<>>)}, u \in Usages}

\* the upstream responses of the variants that price nothing
PlainResponses ==
    {[content |-> c, usage |-> Usage(Num(1000), Num(40)), stop_reason |-> sr] :
        c \in {Arr(<<TextBlock(Str(<<"r">>))>>), Arr(<<>>)},
        sr \in {"end_turn", "max_tokens"}}

\* upstream errors by HTTP status: model not found, and any other
UpstreamErrors == {[status |-> 404], [status |-> 500]}

\* the figures a client first passes in: absent, zero, negative, a little,
\* less than one rounding step, and text that is no number
Balances == {Undef, Num(0), Num(0 - 10000), Num(500000), Num(6000), Str(<<"x">>)}
SessionCosts == {Undef, Num(4000)}

NoRequest == [t |-> "none"]
NoResponse == [status |-> 0, kind |-> "none"]

\* res.status(code).json({ error })
ErrorResponse(code, text) == [status |-> code, kind |-> "error", body |-> [error |-> text]]

\* JSON.stringify of a number: NaN is written as null
Json(v) == IF v = NaN THEN Null ELSE v

\* response.content?.find(c => c.type === "text")?.text || ""
RECURSIVE FirstText(_)
FirstText(blocks) ==
    IF blocks = <<>> THEN Undef
    ELSE IF Head(blocks).type = "text" THEN Head(blocks).text
    ELSE FirstText(Tail(blocks))

FindReply(response) ==
    IF IsArr(response.content) THEN Or(FirstText(response.content.a), Str(<<>>))
    ELSE Str(<<>>)

\* a destructuring default: the default replaces undefined only
Default(v, d) == IF v = Undef THEN d ELSE v

-----------------------------------------------------------------------------
(* The handler specification                                               *)

NoFn == [op |-> "none"]

Init ==
    /\ variant \in Variants
    /\ env \in IF variant = "modes"
               THEN {[ALLOW_DEEP |-> d] : d \in BOOLEAN}
               ELSE {[ALLOW_DEEP |-> FALSE]}
    /\ pc = "idle"
    /\ req = NoRequest
    /\ sel = Undef
    /\ calls = <<>>
    /\ outcomes = <<>>
    /\ res = NoResponse
    /\ client \in IF variant = "cost"
                  THEN {[sessionCost |-> sc, balance |-> b, n |-> 0, echo |-> FALSE, gone |-> FALSE] :
                            sc \in SessionCosts, b \in Balances}
                  ELSE {[sessionCost |-> Undef, balance |-> Undef, n |-> 0,
                         echo |-> FALSE, gone |-> FALSE]}
    /\ fn = NoFn

\* anthropic.messages.create({ model, messages, ... }) is called
Call(model, messages) == [model |-> model, messages |-> messages]

\* the call resolves with a response, or rejects with an error
Resolved(response) == [ok |-> TRUE, response |-> response]
Rejected(err) == [ok |-> FALSE, err |-> err]

\* the message of the current turn
UserTurn(content) == Turn(USER, content)

(* ---- cost variant: src/server.js 104-179 ---- *)

\* lines 105-134: destructuring, validation, message list, model choice and
\* the first upstream call
ChatCost ==
    /\ variant = "cost" /\ pc = "idle"
    /\ \E message \in Messages, history \in Histories, model \in ModelSelectors :
        LET body == [message |-> message, history |-> history, model |-> model,
                     sessionCost |-> client.sessionCost, balance |-> client.balance]
            messages == sanitizeHistory(Default(history, Arr(<<>>)))
                            \o <<UserTurn(Arr(<<TextBlock(message)>>))>>
            m == Default(model, Str(<<DEFAULT_MODEL>>))
            selectedModel == IF Truthy(Lookup(PRICING, PropertyKey(m)))
                             THEN m ELSE Str(<<DEFAULT_MODEL>>)
        IN  /\ req' = [body |-> body, files |-> Undef]
            /\ IF ~Truthy(message) \/ ~IsStr(message)
               THEN /\ res' = ErrorResponse(400, "Message is required")
                    /\ pc' = "done"
                    /\ UNCHANGED <<sel, calls>>
               ELSE /\ sel' = selectedModel
                    /\ calls' = <<Call(selectedModel, messages)>>
                    /\ pc' = "await"
                    /\ UNCHANGED res
    /\ UNCHANGED <<variant, env, outcomes, client, fn>>

\* CostResponse as it would be if the session cost were returned as summed,
\* without toFixed(4)
CostResponse_sessionUnrounded(selectedModel, response, body) ==
    LET lastCost == estimateCost(selectedModel, response.usage)
    IN  [status |-> 200, kind |-> "reply",
         body |-> [reply |-> FindReply(response), modelUsed |-> selectedModel,
                   usage |-> response.usage,
                   costs |-> [last |-> Json(lastCost),
                              session |-> Json(Plus(ToNumber(Default(
                                  body.sessionCost, Num(0))), lastCost)),
                              balance |-> Json(Fixed4(Max0(Minus(ToNumber(Default(
                                  body.balance, Num(DEFAULT_BALANCE))), lastCost)),
                                  FALSE))]]]

\* CostResponse as it would be without Math.max(0, ...)
CostResponse_unclamped(selectedModel, response, body) ==
    LET lastCost == estimateCost(selectedModel, response.usage)
    IN  [status |-> 200, kind |-> "reply",
         body |-> [reply |-> FindReply(response), modelUsed |-> selectedModel,
                   usage |-> response.usage,
                   costs |-> [last |-> Json(lastCost),
                              session |-> Json(Fixed4(Plus(ToNumber(Default(
                                  body.sessionCost, Num(0))), lastCost), FALSE)),
                              balance |-> Json(Fixed4(Minus(ToNumber(Default(
                                  body.balance, Num(DEFAULT_BALANCE))), lastCost),
                                  FALSE))]]]

\* lines 152-172: the reply, the cost figures and the response
CostResponse(selectedModel, response, body) ==
    LET reply == FindReply(response)
        lastCost == estimateCost(selectedModel, response.usage)
        newSessionCost ==
            Fixed4(Plus(ToNumber(Default(body.sessionCost, Num(0))), lastCost), FALSE)
        newBalance ==
            Fixed4(Max0(Minus(ToNumber(Default(body.balance, Num(DEFAULT_BALANCE))),
                              lastCost)), FALSE)
    IN  [status |-> 200, kind |-> "reply",
         body |-> [reply |-> reply, modelUsed |-> selectedModel,
                   usage |-> response.usage,
                   costs |-> [last |-> Json(lastCost),
                              session |-> Json(newSessionCost),
                              balance |-> Json(newBalance)]]]

\* lines 130-134 resolve: the first call returns a response
CostResolve ==
    /\ variant = "cost" /\ pc = "await"
    /\ \E response \in Responses :
        /\ outcomes' = Append(outcomes, Resolved(response))
        /\ res' = CostResponse(sel, response, req.body)
    /\ pc' = "done"
    /\ UNCHANGED <<variant, env, req, sel, calls, client, fn>>

\* CostReject as it would be if every 404 were retried, whatever the model
CostReject_anyModel ==
    /\ variant = "cost" /\ pc = "await"
    /\ \E err \in UpstreamErrors :
        /\ outcomes' = Append(outcomes, Rejected(err))
        /\ IF err.status = 404
           THEN /\ calls' = Append(calls, Call(Str(<<DEFAULT_MODEL>>), calls[1].messages))
                /\ pc' = "fallback"
                /\ UNCHANGED res
           ELSE /\ res' = ErrorResponse(500, "Claude request failed")
                /\ pc' = "done"
                /\ UNCHANGED calls
    /\ UNCHANGED <<variant, env, req, sel, client, fn>>

\* lines 135-150 and 173-178: the first call fails; the fallback call is made
\* for Opus and status 404, every other failure reaches the outer catch
CostReject ==
    /\ variant = "cost" /\ pc = "await"
    /\ \E err \in UpstreamErrors :
        /\ outcomes' = Append(outcomes, Rejected(err))
        /\ IF sel = Str(<<OPUS>>) /\ err.status = 404
           THEN /\ calls' = Append(calls, Call(Str(<<DEFAULT_MODEL>>), calls[1].messages))
                /\ pc' = "fallback"
                /\ UNCHANGED res
           ELSE /\ res' = ErrorResponse(500, "Claude request failed")
                /\ pc' = "done"
                /\ UNCHANGED calls
    /\ UNCHANGED <<variant, env, req, sel, client, fn>>

\* CostFallbackResolve as it would be without selectedModel = DEFAULT_MODEL
CostFallbackResolve_keepsModel ==
    /\ variant = "cost" /\ pc = "fallback"
    /\ sel' = sel
    /\ \E response \in Responses :
        /\ outcomes' = Append(outcomes, Resolved(response))
        /\ res' = CostResponse(sel, response, req.body)
    /\ pc' = "done"
    /\ UNCHANGED <<variant, env, req, calls, client, fn>>

\* lines 141-146 resolve: the fallback call returns; selectedModel becomes
\* the default model and the response is assembled with it
CostFallbackResolve ==
    /\ variant = "cost" /\ pc = "fallback"
    /\ sel' = Str(<<DEFAULT_MODEL>>)
    /\ \E response \in Responses :
        /\ outcomes' = Append(outcomes, Resolved(response))
        /\ res' = CostResponse(sel', response, req.body)
    /\ pc' = "done"
    /\ UNCHANGED <<variant, env, req, calls, client, fn>>

\* lines 141-145 reject and 173-178: the fallback call fails too
CostFallbackReject ==
    /\ variant = "cost" /\ pc = "fallback"
    /\ \E err \in UpstreamErrors :
        /\ outcomes' = Append(outcomes, Rejected(err))
        /\ res' = ErrorResponse(500, "Claude request failed")
    /\ pc' = "done"
    /\ UNCHANGED <<variant, env, req, sel, calls, client, fn>>

(* ---- plain variant: src/server.js 264-307 ---- *)

PLAIN_MODEL == "claude-sonnet-4-20250514"

\* res.json({ reply }) of the always-200 variants
ReplyResponse(body) == [status |-> 200, kind |-> "reply", body |-> body]

\* response?.content?.[0]?.text || fallback text
FirstBlockText(response, sorry) ==
    IF IsArr(response.content) /\ Len(response.content.a) > 0
    THEN Or(response.content.a[1].text, Str(<<sorry>>))
    ELSE Str(<<sorry>>)

\* lines 265-292: validation, message list and the upstream call
ChatPlain ==
    /\ variant = "plain" /\ pc = "idle"
    /\ \E message \in Messages, history \in Histories :
        /\ req' = [body |-> [message |-> message, history |-> history], files |-> Undef]
        /\ IF ~Truthy(message) \/ ~IsStr(message)
           THEN /\ res' = ReplyResponse([reply |-> Str(<<"Please send a valid message.">>)])
                /\ pc' = "done"
                /\ UNCHANGED <<sel, calls>>
           ELSE /\ sel' = Str(<<PLAIN_MODEL>>)
                /\ calls' = <<Call(Str(<<PLAIN_MODEL>>),
                                   inlineHistory(Default(history, Arr(<<>>)))
                                       \o <<UserTurn(Str(trim(message.s)))>>)>>
                /\ pc' = "await"
                /\ UNCHANGED res
    /\ UNCHANGED <<variant, env, outcomes, client, fn>>

\* lines 294-298: the reply, or the apology when the response has no text
PlainResolve ==
    /\ variant = "plain" /\ pc = "await"
    /\ \E response \in PlainResponses :
        /\ outcomes' = Append(outcomes, Resolved(response))
        /\ res' = ReplyResponse([reply |-> FirstBlockText(response, "Sorry, no response.")])
    /\ pc' = "done"
    /\ UNCHANGED <<variant, env, req, sel, calls, client, fn>>

\* PlainReject as it would be if the catch answered as the strict variants do
PlainReject_strict ==
    /\ variant = "plain" /\ pc = "await"
    /\ \E err \in UpstreamErrors :
        /\ outcomes' = Append(outcomes, Rejected(err))
        /\ res' = ErrorResponse(500, "Claude request failed")
    /\ pc' = "done"
    /\ UNCHANGED <<variant, env, req, sel, calls, client, fn>>

\* lines 299-306: every failure is answered with status 200
PlainReject ==
    /\ variant = "plain" /\ pc = "await"
    /\ \E err \in UpstreamErrors :
        /\ outcomes' = Append(outcomes, Rejected(err))
        /\ res' = ReplyResponse([reply |-> Str(<<"Sorry, something went wrong.">>)])
    /\ pc' = "done"
    /\ UNCHANGED <<variant, env, req, sel, calls, client, fn>>

(* ---- alias variant: src/unnamed/part_002 87-132 ---- *)

\* MODEL_MAP, friendly name to model identifier
MODEL_MAP ==
    ("opus" :> Str(<<"claude-opus-4-20250514">>)) @@
    ("sonnet" :> Str(<<"claude-sonnet-4-20250514">>)) @@
    ("haiku" :> Str(<<"claude-haiku-4-20250514">>))

AliasSelectors == {Undef, Str(<<"opus">>), Str(<<"gpt-4">>), Str(<<"constructor">>)}

\* lines 88-117
ChatAlias ==
    /\ variant = "alias" /\ pc = "idle"
    /\ \E message \in Messages, history \in Histories, model \in AliasSelectors :
        LET selectedModel == Or(Lookup(MODEL_MAP, PropertyKey(model)), MODEL_MAP["sonnet"])
        IN  /\ req' = [body |-> [message |-> message, history |-> history, model |-> model],
                       files |-> Undef]
            /\ IF ~Truthy(message) \/ ~IsStr(message)
               THEN /\ res' = ReplyResponse([reply |-> Str(<<"Please enter a valid message.">>)])
                    /\ pc' = "done"
                    /\ UNCHANGED <<sel, calls>>
               ELSE /\ sel' = selectedModel
                    /\ calls' = <<Call(selectedModel,
                                       inlineHistory(Default(history, Arr(<<>>)))
                                           \o <<UserTurn(Str(trim(message.s)))>>)>>
                    /\ pc' = "await"
                    /\ UNCHANGED res
    /\ UNCHANGED <<variant, env, outcomes, client, fn>>

\* lines 119-123
AliasResolve ==
    /\ variant = "alias" /\ pc = "await"
    /\ \E response \in PlainResponses :
        /\ outcomes' = Append(outcomes, Resolved(response))
        /\ res' = ReplyResponse([reply |-> FirstBlockText(response, "Sorry, no response.")])
    /\ pc' = "done"
    /\ UNCHANGED <<variant, env, req, sel, calls, client, fn>>

\* lines 124-131
AliasReject ==
    /\ variant = "alias" /\ pc = "await"
    /\ \E err \in UpstreamErrors :
        /\ outcomes' = Append(outcomes, Rejected(err))
        /\ res' = ReplyResponse([reply |-> Str(<<"Sorry, something went wrong.">>)])
    /\ pc' = "done"
    /\ UNCHANGED <<variant, env, req, sel, calls, client, fn>>

(* ---- modes variant: src/unnamed/part_001 95-183 ---- *)

\* THINKING_MODES
THINKING_MODES ==
    ("quick" :> [t |-> "object", model |-> Str(<<"claude-haiku-4-20250514">>),
                 maxTokens |-> Num(512)]) @@
    ("balanced" :> [t |-> "object", model |-> Str(<<"claude-sonnet-4-20250514">>),
                    maxTokens |-> Num(1024)]) @@
    ("deep" :> [t |-> "object", model |-> Str(<<"claude-opus-4-20250514">>),
                maxTokens |-> Num(2048)])

ModeSelectors == {Undef, Str(<<"quick">>), Str(<<"deep">>), Str(<<"turbo">>), Str(<<"constructor">>)}

Attachment(type, base64, content) ==
    [t |-> "object", type |-> type, base64 |-> base64, content |-> content,
     name |-> Str(<<"f">>)]

PNG == Str(<<"image/", "png">>)
TXT == Str(<<"text/", "plain">>)

\* attachments of a JSON body: image data, a text document, an object with
\* both, a type without data, a document without text, and null
Attachments ==
    {Attachment(PNG, Str(<<"b">>), Undef),
     Attachment(TXT, Undef, Str(<<"a", "b", "c">>)),
     Attachment(PNG, Str(<<"b">>), Str(<<"a">>)),
     Attachment(PNG, Undef, Undef),
     Attachment(Str(<<"application/", "pdf">>), Str(<<"b">>), Undef),
     Null}


AttachmentLists == {Undef} \cup {Arr(a) : a \in SeqsUpTo(Attachments, MaxFiles)}

\* lines 108-112: the mode of the request
ResolveMode(thinkingMode) ==
    IF /\ Truthy(Lookup(THINKING_MODES, PropertyKey(thinkingMode)))
       /\ (thinkingMode # Str(<<"deep">>) \/ env.ALLOW_DEEP)
    THEN Lookup(THINKING_MODES, PropertyKey(thinkingMode))
    ELSE THINKING_MODES["balanced"]

\* lines 96-166: validation, mode, content blocks, message list and the
\* upstream call; an exception thrown on the way reaches the catch (176-182)
ChatModes ==
    /\ variant = "modes" /\ pc = "idle"
    /\ \E message \in Messages, history \in Histories, thinkingMode \in ModeSelectors,
          attachments \in AttachmentLists :
        LET tm == Default(thinkingMode, Str(<<"balanced">>))
            mode == ResolveMode(tm)
            content == modesContent(message, Default(attachments, Arr(<<>>)))
        IN  /\ req' = [body |-> [message |-> message, history |-> history,
                                 thinkingMode |-> thinkingMode,
                                 attachments |-> attachments],
                       files |-> Undef]
            /\ IF ~Truthy(message) \/ ~IsStr(message)
               THEN /\ res' = ReplyResponse([reply |-> Str(<<"Please enter a valid message.">>)])
                    /\ pc' = "done"
                    /\ UNCHANGED <<sel, calls>>
               ELSE IF content = THROW
               THEN /\ res' = ReplyResponse([reply |-> Str(<<"Sorry, something went wrong.">>)])
                    /\ pc' = "done"
                    /\ UNCHANGED <<sel, calls>>
               ELSE /\ sel' = Get(mode, "model")
                    /\ calls' = <<Call(Get(mode, "model"),
                                       inlineHistory(Default(history, Arr(<<>>)))
                                           \o <<UserTurn(content)>>)>>
                    /\ pc' = "await"
                    /\ UNCHANGED res
    /\ UNCHANGED <<variant, env, outcomes, client, fn>>

\* lines 168-175
ModesResolve ==
    /\ variant = "modes" /\ pc = "await"
    /\ \E response \in PlainResponses :
        /\ outcomes' = Append(outcomes, Resolved(response))
        /\ res' = ReplyResponse([reply |-> FirstBlockText(response, "Sorry, no response."),
                              thinkingMode |-> Default(req.body.thinkingMode,
                                                       Str(<<"balanced">>))])
    /\ pc' = "done"
    /\ UNCHANGED <<variant, env, req, sel, calls, client, fn>>

\* lines 176-182
ModesReject ==
    /\ variant = "modes" /\ pc = "await"
    /\ \E err \in UpstreamErrors :
        /\ outcomes' = Append(outcomes, Rejected(err))
        /\ res' = ReplyResponse([reply |-> Str(<<"Sorry, something went wrong.">>)])
    /\ pc' = "done"
    /\ UNCHANGED <<variant, env, req, sel, calls, client, fn>>

(* ---- the variants behind multer: multipart, multicost, hardened ---- *)

\* text of the history form field: JSON text of a value, or text that is no JSON
JsonText(v) == [t |-> "json", value |-> v]
BadJson == [t |-> "badjson"]

HistoryFields ==
    {Undef, BadJson, JsonText(Num(7))}
        \cup {JsonText(Arr(a)) : a \in SeqsUpTo(HistTurns, MaxHist)}

\* message fields of a form: absent, empty, blank, plain, padded, no string
FormMessages ==
    {Undef, Str(<<>>), Str(<<" ">>), Str(<<"a">>), Str(<<" ", "a">>), Num(7)}

\* the alias field `prompt`; the other aliases are absent
FormPrompts == {Undef, Str(<<"p">>)}

FormModels == {Undef, Str(<<OPUS>>), Str(<<"gpt-4">>)}

File(mimetype, buffer, size) ==
    [t |-> "object", mimetype |-> mimetype, originalname |-> Str(<<"f">>),
     buffer |-> buffer, size |-> size]

\* uploaded files: an image, a text file longer than the excerpt with a byte
\* that is no UTF-8, and an image over the size limit (sizes in MiB)
Files ==
    {File(PNG, <<"i">>, 1), File(TXT, <<"a", "\\xff", "c">>, 1), File(PNG, <<"i">>, 11)}

\* req.files: undefined for a body that is no multipart form
FileLists == {Undef} \cup {Arr(a) : a \in SeqsUpTo(Files, MaxFiles)}

\* upload.array("files") with limits.fileSize: a file over the limit fails the
\* request in the middleware, before the handler runs
MulterRejects(files) ==
    IsArr(files) /\ \E k \in 1..Len(files.a) : files.a[k].size > FILE_SIZE_LIMIT

MulterResponse == [status |-> 500, kind |-> "middleware"]

FormBody(message, prompt, history, model) ==
    [message |-> message, prompt |-> prompt, input |-> Undef, content |-> Undef,
     text |-> Undef, history |-> history, model |-> model]

(* multipart variant: src/unnamed/part_000 318-379 *)

\* lines 319-361
ChatMultipart ==
    /\ variant = "multipart" /\ pc = "idle"
    /\ \E m \in FormMessages, p \in FormPrompts, h \in HistoryFields,
          md \in FormModels, files \in FileLists :
        LET body == FormBody(m, p, h, md)
            message == Or(body.message, Or(body.prompt, Or(body.input,
                          Or(body.text, Str(<<>>)))))
            history == parseHistory(body.history)
            model == Or(body.model, Str(<<DEFAULT_MODEL>>))
            turns == pushHistory(history)
            content == buildUserContent(message, files)
        IN  /\ req' = [body |-> body, files |-> files]
            /\ IF MulterRejects(files)
               THEN /\ res' = MulterResponse /\ pc' = "done"
                    /\ UNCHANGED <<sel, calls>>
               ELSE IF history = THROW
               THEN /\ res' = ErrorResponse(500, "Claude request failed")
                    /\ pc' = "done"
                    /\ UNCHANGED <<sel, calls>>
               ELSE IF ~Truthy(message) /\ ~(IsArr(files) /\ Len(files.a) # 0)
               THEN /\ res' = ErrorResponse(400, "Message or file required")
                    /\ pc' = "done"
                    /\ UNCHANGED <<sel, calls>>
               ELSE IF turns = THROW \/ content = THROW
               THEN /\ res' = ErrorResponse(500, "Claude request failed")
                    /\ pc' = "done"
                    /\ UNCHANGED <<sel, calls>>
               ELSE /\ sel' = model
                    /\ calls' = <<Call(model, turns.a \o <<UserTurn(content)>>)>>
                    /\ pc' = "await"
                    /\ UNCHANGED res
    /\ UNCHANGED <<variant, env, outcomes, client, fn>>

\* lines 363-372
MultipartResolve ==
    /\ variant = "multipart" /\ pc = "await"
    /\ \E response \in PlainResponses :
        /\ outcomes' = Append(outcomes, Resolved(response))
        /\ res' = [status |-> 200, kind |-> "reply",
                body |-> [reply |-> FindReply(response),
                          truncated |-> (response.stop_reason = "max_tokens"),
                          usage |-> response.usage]]
    /\ pc' = "done"
    /\ UNCHANGED <<variant, env, req, sel, calls, client, fn>>

\* lines 373-378
MultipartReject ==
    /\ variant = "multipart" /\ pc = "await"
    /\ \E err \in UpstreamErrors :
        /\ outcomes' = Append(outcomes, Rejected(err))
        /\ res' = ErrorResponse(500, "Claude request failed")
    /\ pc' = "done"
    /\ UNCHANGED <<variant, env, req, sel, calls, client, fn>>

(* multicost variant: src/unnamed/part_003 131-199 *)

\* lines 135-180
ChatMulticost ==
    /\ variant = "multicost" /\ pc = "idle"
    /\ \E m \in FormMessages, p \in FormPrompts, h \in HistoryFields,
          md \in FormModels, files \in FileLists :
        LET body == FormBody(m, p, h, md)
            message == Or(body.message, Or(body.prompt, Or(body.input,
                          Or(body.content, Or(body.text, Str(<<>>))))))
            history == parseHistory(body.history)
            model == Or(body.model, Str(<<DEFAULT_MODEL>>))
            turns == pushHistory(history)
            content == buildUserContent(message, files)
        IN  /\ req' = [body |-> body, files |-> files]
            /\ IF MulterRejects(files)
               THEN /\ res' = MulterResponse /\ pc' = "done"
                    /\ UNCHANGED <<sel, calls>>
               ELSE IF history = THROW
               THEN /\ res' = ErrorResponse(500, "Claude request failed")
                    /\ pc' = "done"
                    /\ UNCHANGED <<sel, calls>>
               ELSE IF ~Truthy(message) /\ ~(IsArr(files) /\ Len(files.a) # 0)
               THEN /\ res' = ErrorResponse(400, "Message or file required")
                    /\ pc' = "done"
                    /\ UNCHANGED <<sel, calls>>
               ELSE IF turns = THROW \/ content = THROW
               THEN /\ res' = ErrorResponse(500, "Claude request failed")
                    /\ pc' = "done"
                    /\ UNCHANGED <<sel, calls>>
               ELSE /\ sel' = model
                    /\ calls' = <<Call(model, turns.a \o <<UserTurn(content)>>)>>
                    /\ pc' = "await"
                    /\ UNCHANGED res
    /\ UNCHANGED <<variant, env, outcomes, client, fn>>

\* lines 182-191
MulticostResolve ==
    /\ variant = "multicost" /\ pc = "await"
    /\ \E response \in Responses :
        /\ outcomes' = Append(outcomes, Resolved(response))
        /\ res' = [status |-> 200, kind |-> "reply",
                body |-> [reply |-> FindReply(response),
                          usage |-> response.usage,
                          cost |-> Json(estimateCost(sel, response.usage))]]
    /\ pc' = "done"
    /\ UNCHANGED <<variant, env, req, sel, calls, client, fn>>

\* lines 192-197
MulticostReject ==
    /\ variant = "multicost" /\ pc = "await"
    /\ \E err \in UpstreamErrors :
        /\ outcomes' = Append(outcomes, Rejected(err))
        /\ res' = ErrorResponse(500, "Claude request failed")
    /\ pc' = "done"
    /\ UNCHANGED <<variant, env, req, sel, calls, client, fn>>

(* hardened variant: src/unnamed/part_004 122-166 *)

\* lines 123-150
ChatHardened ==
    /\ variant = "hardened" /\ pc = "idle"
    /\ \E m \in FormMessages, p \in FormPrompts, h \in HistoryFields,
          md \in FormModels, files \in FileLists :
        LET body == FormBody(m, p, h, md)
            message == Or(body.message, Or(body.prompt, Or(body.text, Str(<<>>))))
            history == parseHistory(body.history)
            model == IF IsStr(body.model) /\ PropertyKey(body.model) \in MODELS
                     THEN body.model ELSE Str(<<DEFAULT_MODEL>>)
        IN  /\ req' = [body |-> body, files |-> files]
            /\ IF MulterRejects(files)
               THEN /\ res' = MulterResponse /\ pc' = "done"
                    /\ UNCHANGED <<sel, calls>>
               ELSE IF history = THROW
               THEN /\ res' = ErrorResponse(500, "Claude request failed")
                    /\ pc' = "done"
                    /\ UNCHANGED <<sel, calls>>
               ELSE /\ sel' = model
                    /\ calls' = <<Call(model, normaliseHistory(history)
                                           \o <<UserTurn(hardenedUserContent(message, files))>>)>>
                    /\ pc' = "await"
                    /\ UNCHANGED res
    /\ UNCHANGED <<variant, env, outcomes, client, fn>>

\* lines 152-158
HardenedResolve ==
    /\ variant = "hardened" /\ pc = "await"
    /\ \E response \in PlainResponses :
        /\ outcomes' = Append(outcomes, Resolved(response))
        /\ res' = [status |-> 200, kind |-> "reply",
                body |-> [reply |-> FindReply(response), usage |-> response.usage]]
    /\ pc' = "done"
    /\ UNCHANGED <<variant, env, req, sel, calls, client, fn>>

\* lines 160-165
HardenedReject ==
    /\ variant = "hardened" /\ pc = "await"
    /\ \E err \in UpstreamErrors :
        /\ outcomes' = Append(outcomes, Rejected(err))
        /\ res' = ErrorResponse(500, "Claude request failed")
    /\ pc' = "done"
    /\ UNCHANGED <<variant, env, req, sel, calls, client, fn>>

(* ---- stream variant: src/unnamed/part_000 103-189 ---- *)

STREAM_MODEL == "claude-sonnet-4-20250514"

\* text events of one stream
MaxText == 1

\* the response as a server-sent-event stream: what was written, how often
\* res.end() was called, and what was written after the first res.end()
SseResponse(writes, ends, late) ==
    [status |-> 200, kind |-> "sse", writes |-> writes, ends |-> ends, late |-> late]

\* res.write(chunk) on the event stream
SseWrite(r, chunk) ==
    IF r.ends > 0 THEN [r EXCEPT !.late = Append(r.late, chunk)]
    ELSE [r EXCEPT !.writes = Append(r.writes, chunk)]

\* res.end()
SseEnd(r) == [r EXCEPT !.ends = r.ends + 1]

\* the 'end' listener, lines 167-170
OnEnd(r) == SseEnd(SseWrite(r, "[DONE]"))

\* the 'error' listener, lines 160-165
OnError(r) == SseEnd(SseWrite(SseWrite(r, "error"), "[DONE]"))

\* lines 104-154 and 156-176: validation, history, message list, headers,
\* the stream is opened and the listeners are registered
ChatStream ==
    /\ variant = "stream" /\ pc = "idle"
    /\ \E message \in Messages, history \in Histories :
        /\ req' = [body |-> [message |-> message, history |-> history], files |-> Undef]
        /\ IF ~Truthy(message) \/ ~IsStr(message)
           THEN /\ res' = ErrorResponse(400, "Message is required")
                /\ pc' = "done"
                /\ UNCHANGED <<sel, calls>>
           ELSE IF Len(message.s) > maxMessageLength
           THEN /\ res' = ErrorResponse(400, "Message too long")
                /\ pc' = "done"
                /\ UNCHANGED <<sel, calls>>
           ELSE IF ~Truthy(Str(trim(message.s)))
           THEN /\ res' = ErrorResponse(400, "Message cannot be empty")
                /\ pc' = "done"
                /\ UNCHANGED <<sel, calls>>
           ELSE /\ sel' = Str(<<STREAM_MODEL>>)
                /\ calls' = <<Call(Str(<<STREAM_MODEL>>),
                                   sanitizedHistory(Default(history, Arr(<<>>)))
                                       \o <<UserTurn(Str(trim(message.s)))>>)>>
                /\ res' = SseResponse(<<>>, 0, <<>>)
                /\ pc' = "streaming"
    /\ UNCHANGED <<variant, env, outcomes, client, fn>>

\* the 'text' listener, lines 156-158
StreamText ==
    /\ variant = "stream" /\ pc = "streaming"
    /\ Len(res.writes) < MaxText
    /\ res' = SseWrite(res, "content")
    /\ UNCHANGED <<variant, env, pc, req, sel, calls, outcomes, client, fn>>

\* the stream completes: the 'end' listener runs and finalMessage() resolves
StreamEnd ==
    /\ variant = "stream" /\ pc = "streaming"
    /\ res' = OnEnd(res)
    /\ outcomes' = Append(outcomes, Resolved(Undef))
    /\ pc' = "done"
    /\ UNCHANGED <<variant, env, req, sel, calls, client, fn>>

\* the stream fails: the 'error' listener runs, the stream then emits 'end',
\* and finalMessage() is rejected
StreamError ==
    /\ variant = "stream" /\ pc = "streaming"
    /\ \E err \in UpstreamErrors :
        /\ outcomes' = Append(outcomes, Rejected(err))
        /\ res' = OnEnd(OnError(res))
    /\ pc' = "rejected"
    /\ UNCHANGED <<variant, env, req, sel, calls, client, fn>>

\* the client goes away: the 'close' listener aborts the stream (lines
\* 172-174), which emits 'end' and rejects finalMessage()
ClientClose ==
    /\ variant = "stream" /\ pc = "streaming"
    /\ client' = [client EXCEPT !.gone = TRUE]
    /\ res' = OnEnd(res)
    /\ outcomes' = Append(outcomes, Rejected([status |-> "abort"]))
    /\ pc' = "rejected"
    /\ UNCHANGED <<variant, env, req, sel, calls, fn>>

\* the catch block, lines 178-188, after finalMessage() was rejected
StreamCatch ==
    /\ variant = "stream" /\ pc = "rejected"
    /\ res' = IF res.writes = <<>>
              THEN ErrorResponse(500, "An error occurred")
              ELSE OnError(res)
    /\ pc' = "done"
    /\ UNCHANGED <<variant, env, req, sel, calls, outcomes, client, fn>>

\* The client of a variant without streaming goes away while an upstream call
\* is in flight.  These handlers register no 'close' listener and pass no
\* abort signal to anthropic.messages.create: the call goes on.
ClientDisconnect ==
    /\ variant # "stream" /\ pc \in {"await", "fallback"}
    /\ ~client.gone
    /\ client' = [client EXCEPT !.gone = TRUE]
    /\ UNCHANGED <<variant, env, pc, req, sel, calls, outcomes, res, fn>>

\* The client sends its next request.  The client of the cost variant keeps
\* the figures of a successful response and passes them in with it; the
\* server keeps nothing.
ClientNext ==
    /\ pc = "done"
    /\ variant = "cost" => client.n + 1 < MaxCalls
    /\ client' = IF variant # "cost" THEN [client EXCEPT !.gone = FALSE]
                 ELSE IF res.status = 200
                 THEN [sessionCost |-> res.body.costs.session,
                       balance |-> res.body.costs.balance,
                       n |-> client.n + 1, echo |-> TRUE, gone |-> FALSE]
                 ELSE [client EXCEPT !.n = client.n + 1, !.gone = FALSE]
    /\ pc' = "idle"
    /\ req' = NoRequest
    /\ sel' = Undef
    /\ calls' = <<>>
    /\ outcomes' = <<>>
    /\ res' = NoResponse
    /\ UNCHANGED <<variant, env, fn>>

Next ==
    \/ ChatCost \/ CostResolve \/ CostReject \/ CostFallbackResolve \/ CostFallbackReject
    \/ ChatPlain \/ PlainResolve \/ PlainReject
    \/ ChatAlias \/ AliasResolve \/ AliasReject
    \/ ChatModes \/ ModesResolve \/ ModesReject
    \/ ChatMultipart \/ MultipartResolve \/ MultipartReject
    \/ ChatMulticost \/ MulticostResolve \/ MulticostReject
    \/ ChatHardened \/ HardenedResolve \/ HardenedReject
    \/ ChatStream \/ StreamText \/ StreamEnd \/ StreamError \/ ClientClose \/ StreamCatch
    \/ ClientDisconnect
    \/ ClientNext

Spec == Init /\ [][Next]_vars

-----------------------------------------------------------------------------
(* The specification of estimateCost as a function                         *)

CostModels ==
    {Str(<<OPUS>>), Str(<<SONNET>>), Str(<<HAIKU>>), Str(<<"gpt-4">>),
     Str(<<"constructor">>)}

Idle ==
    /\ env = [ALLOW_DEEP |-> FALSE]
    /\ pc = "idle"
    /\ req = NoRequest
    /\ sel = Undef
    /\ calls = <<>>
    /\ outcomes = <<>>
    /\ res = NoResponse
    /\ client = [sessionCost |-> Undef, balance |-> Undef, n |-> 0, echo |-> FALSE, gone |-> FALSE]

InitCost ==
    /\ variant = "cost"
    /\ Idle
    /\ fn \in {[op |-> "estimateCost", model |-> m, usage |-> u, done |-> FALSE,
                out |-> Undef] : m \in CostModels, u \in AllUsages}

\* estimateCost is applied to the model and the usage report drawn
EstimateCost ==
    /\ fn.op = "estimateCost" /\ ~fn.done
    /\ fn' = [fn EXCEPT !.out = estimateCost(fn.model, fn.usage), !.done = TRUE]
    /\ UNCHANGED <<variant, env, pc, req, sel, calls, outcomes, res, client>>

NextCost == EstimateCost

SpecCost == InitCost /\ [][NextCost]_vars

-----------------------------------------------------------------------------
(* The specification of the history sanitizers as functions                *)

\* the longest array sanitized
MaxSanLen == 3

Sanitizers == {"sanitizeHistory", "inlineHistory", "sanitizedHistory", "normaliseHistory"}

\* elements of the arrays sanitized: those of a request, and a text over the
\* stream variant's length limit
SanTurns == HistTurns \cup {Turn(ASSISTANT, Str(<<" ", "a", " ">>))}

SanInputs == {Undef, Num(7)} \cup {Arr(a) : a \in SeqsUpTo(SanTurns, MaxSanLen)}

\* the sanitizer of a variant, applied to a history value; the result is the
\* array it returns
Sanitize(which, history) ==
    CASE which = "sanitizeHistory" -> Arr(sanitizeHistory(Default(history, Arr(<<>>))))
      [] which = "inlineHistory" -> Arr(inlineHistory(history))
      [] which = "sanitizedHistory" -> Arr(sanitizedHistory(history))
      [] which = "normaliseHistory" -> Arr(normaliseHistory(history))

InitHistory ==
    /\ variant = "cost"
    /\ Idle
    /\ fn \in {[op |-> "sanitize", which |-> w, history |-> h, step |-> 0,
                once |-> Undef, twice |-> Undef] : w \in Sanitizers, h \in SanInputs}

\* the sanitizer is applied to the history drawn
SanitizeOnce ==
    /\ fn.op = "sanitize" /\ fn.step = 0
    /\ fn' = [fn EXCEPT !.once = Sanitize(fn.which, fn.history), !.step = 1]
    /\ UNCHANGED <<variant, env, pc, req, sel, calls, outcomes, res, client>>

\* the sanitizer is applied to its own result
SanitizeTwice ==
    /\ fn.op = "sanitize" /\ fn.step = 1
    /\ fn' = [fn EXCEPT !.twice = Sanitize(fn.which, fn.once), !.step = 2]
    /\ UNCHANGED <<variant, env, pc, req, sel, calls, outcomes, res, client>>

NextHistory == SanitizeOnce \/ SanitizeTwice

SpecHistory == InitHistory /\ [][NextHistory]_vars

-----------------------------------------------------------------------------
(* The specification of concurrent requests to the cost variant            *)

\* the number of requests in flight at once
MaxReqs == 2

Reqs == 1..MaxReqs

\* the bodies of the concurrent requests, and what upstream answers
PairMessages == {Undef, Str(<<"a">>)}
PairModels == {Undef, Str(<<OPUS>>), Str(<<HAIKU>>)}
PairResponses ==
    {[content |-> Arr(<<TextBlock(Str(<<"r">>))>>), usage |-> u, stop_reason |-> "end_turn"] :
        u \in {Usage(Num(1000), Num(40)), Usage(Num(0), Num(6))}}

\* Every handler invocation has its own req, res and locals (pc, sel, calls,
\* outcomes are functions of the request); the module-level PRICING, MODELS
\* and DEFAULT_MODEL are never assigned.  client records the order in which
\* the requests arrive and the order in which they are answered.
InitPair ==
    /\ variant = "cost"
    /\ env = [ALLOW_DEEP |-> FALSE]
    /\ fn = NoFn
    /\ pc = [i \in Reqs |-> "idle"]
    /\ req = [i \in Reqs |-> NoRequest]
    /\ sel = [i \in Reqs |-> Undef]
    /\ calls = [i \in Reqs |-> <<>>]
    /\ outcomes = [i \in Reqs |-> <<>>]
    /\ res = [i \in Reqs |-> NoResponse]
    /\ client = [arrived |-> <<>>, answered |-> <<>>]

\* the handler of request i finishes with a response
Answer(i, response) ==
    /\ res' = [res EXCEPT ![i] = response]
    /\ pc' = [pc EXCEPT ![i] = "done"]
    /\ client' = [client EXCEPT !.answered = Append(client.answered, i)]

\* src/server.js 105-134 for request i
PairChat(i) ==
    /\ pc[i] = "idle"
    /\ \E message \in PairMessages, model \in PairModels :
        LET body == [message |-> message, history |-> Undef, model |-> model,
                     sessionCost |-> Undef, balance |-> Undef]
            m == Default(model, Str(<<DEFAULT_MODEL>>))
            selectedModel == IF Truthy(Lookup(PRICING, PropertyKey(m)))
                             THEN m ELSE Str(<<DEFAULT_MODEL>>)
        IN  /\ req' = [req EXCEPT ![i] = [body |-> body, files |-> Undef]]
            /\ IF ~Truthy(message) \/ ~IsStr(message)
               THEN /\ res' = [res EXCEPT ![i] = ErrorResponse(400, "Message is required")]
                    /\ pc' = [pc EXCEPT ![i] = "done"]
                    /\ client' = [arrived |-> Append(client.arrived, i),
                                  answered |-> Append(client.answered, i)]
                    /\ UNCHANGED <<sel, calls>>
               ELSE /\ sel' = [sel EXCEPT ![i] = selectedModel]
                    /\ calls' = [calls EXCEPT ![i] =
                                    <<Call(selectedModel,
                                           <<UserTurn(Arr(<<TextBlock(message)>>))>>)>>]
                    /\ pc' = [pc EXCEPT ![i] = "await"]
                    /\ client' = [client EXCEPT !.arrived = Append(client.arrived, i)]
                    /\ UNCHANGED res
    /\ UNCHANGED <<variant, env, outcomes, fn>>

\* src/server.js 130-134 and 152-172 for request i
PairResolve(i) ==
    /\ pc[i] = "await"
    /\ \E response \in PairResponses :
        /\ outcomes' = [outcomes EXCEPT ![i] = Append(outcomes[i], Resolved(response))]
        /\ Answer(i, CostResponse(sel[i], response, req[i].body))
    /\ UNCHANGED <<variant, env, req, sel, calls, fn>>

\* src/server.js 135-150 and 173-178 for request i
PairReject(i) ==
    /\ pc[i] = "await"
    /\ \E err \in UpstreamErrors :
        /\ outcomes' = [outcomes EXCEPT ![i] = Append(outcomes[i], Rejected(err))]
        /\ IF sel[i] = Str(<<OPUS>>) /\ err.status = 404
           THEN /\ calls' = [calls EXCEPT ![i] =
                                Append(calls[i], Call(Str(<<DEFAULT_MODEL>>),
                                                      calls[i][1].messages))]
                /\ pc' = [pc EXCEPT ![i] = "fallback"]
                /\ UNCHANGED <<res, client>>
           ELSE /\ Answer(i, ErrorResponse(500, "Claude request failed"))
                /\ UNCHANGED calls
    /\ UNCHANGED <<variant, env, req, sel, fn>>

\* PairFallbackResolve as it would be if selectedModel were a variable of the
\* module, shared by the handlers, and not a local of each
PairFallbackResolve_sharedModel(i) ==
    /\ pc[i] = "fallback"
    /\ sel' = [j \in Reqs |-> Str(<<DEFAULT_MODEL>>)]
    /\ \E response \in PairResponses :
        /\ outcomes' = [outcomes EXCEPT ![i] = Append(outcomes[i], Resolved(response))]
        /\ Answer(i, CostResponse(sel'[i], response, req[i].body))
    /\ UNCHANGED <<variant, env, req, calls, fn>>

\* src/server.js 141-146 and 152-172 for request i
PairFallbackResolve(i) ==
    /\ pc[i] = "fallback"
    /\ sel' = [sel EXCEPT ![i] = Str(<<DEFAULT_MODEL>>)]
    /\ \E response \in PairResponses :
        /\ outcomes' = [outcomes EXCEPT ![i] = Append(outcomes[i], Resolved(response))]
        /\ Answer(i, CostResponse(sel'[i], response, req[i].body))
    /\ UNCHANGED <<variant, env, req, calls, fn>>

\* src/server.js 141-145 and 173-178 for request i
PairFallbackReject(i) ==
    /\ pc[i] = "fallback"
    /\ \E err \in UpstreamErrors :
        /\ outcomes' = [outcomes EXCEPT ![i] = Append(outcomes[i], Rejected(err))]
        /\ Answer(i, ErrorResponse(500, "Claude request failed"))
    /\ UNCHANGED <<variant, env, req, sel, calls, fn>>

NextPair ==
    \E i \in Reqs :
        \/ PairChat(i)
        \/ PairResolve(i)
        \/ PairReject(i)
        \/ PairFallbackResolve(i)
        \/ PairFallbackReject(i)

SpecPair == InitPair /\ [][NextPair]_vars

-----------------------------------------------------------------------------
(* Properties                                                              *)

\* a field of the request body, undefined when the body has no such field
Field(body, name) == IF name \in DOMAIN body THEN body[name] ELSE Undef

\* a message value that is absent, the empty string, or blank
Blank(v) == v = Undef \/ (IsStr(v) /\ trim(v.s) = <<>>)

\* the request in hand has an empty message under every name the variant reads
EmptyMessage ==
    /\ req # NoRequest
    /\ \A name \in {"message", "prompt", "input", "content", "text"} :
           Blank(Field(req.body, name))

\* the request in hand carries no attachment and no uploaded file
NoAttachments ==
    /\ req # NoRequest
    /\ req.files \in {Undef, Arr(<<>>)}
    /\ Field(req.body, "attachments") \in {Undef, Arr(<<>>)}

\* the cost figure of the response in hand: costs.last or cost, zero when the
\* response carries none
ResponseCost ==
    IF res.kind = "reply" /\ "costs" \in DOMAIN res.body THEN res.body.costs.last
    ELSE IF res.kind = "reply" /\ "cost" \in DOMAIN res.body THEN res.body.cost
    ELSE Num(0)

\* C1: a request with an empty message (absent, empty or blank) and no
\* attachment makes no upstream call and is charged nothing, in every variant.
C1_EmptyRequestNotForwarded ==
    (EmptyMessage /\ NoAttachments) => (calls = <<>> /\ ResponseCost = Num(0))

\* a usage report with both token counts
ValidUsage(u) == IsObj(u) /\ IsNum(u.input_tokens) /\ IsNum(u.output_tokens)

\* i/1e6*pi + o/1e6*po as an exact amount, in units of 1e-8 USD
ExactCost(model, u) ==
    u.input_tokens.n * PRICING[PropertyKey(model)].input.n
        + u.output_tokens.n * PRICING[PropertyKey(model)].output.n

\* estimateCost was applied to a usage report with both counts and a priced model
CostApplied ==
    /\ fn.op = "estimateCost" /\ fn.done
    /\ ValidUsage(fn.usage)
    /\ PropertyKey(fn.model) \in DOMAIN PRICING

\* C2 as stated: the result is the exact cost rounded to 4 places, a tie
\* rounded up as toFixed rounds one (rounding a tie to even fails as well:
\* Opus with 14 output tokens, 0.00035, gives 0.0003).
C2_ExactlyRounded ==
    CostApplied =>
        fn.out = Num(((ExactCost(fn.model, fn.usage) + 5000) \div 10000) * 10000)

\* C2 amended: the result is a multiple of 0.0001 USD nearest to the exact
\* cost (at most 0.00005 USD away from it) and is never negative.
C2_NearestAndNonNegative ==
    CostApplied =>
        /\ IsNum(fn.out)
        /\ fn.out.n >= 0
        /\ fn.out.n % 10000 = 0
        /\ 2 * (fn.out.n - ExactCost(fn.model, fn.usage)) <= 10000
        /\ 2 * (ExactCost(fn.model, fn.usage) - fn.out.n) <= 10000

\* a tie was rounded down: Opus, 0 input and 2 output tokens, 0.00005 -> 0
C2_Witness ==
    /\ CostApplied
    /\ ExactCost(fn.model, fn.usage) % 10000 = 5000
    /\ fn.out = Num(ExactCost(fn.model, fn.usage) - 5000)

\* the usage report of a response lacks a numeric token count, or is absent
MalformedUsage(u) == ~ValidUsage(u)

\* the last upstream call of the request in hand returned a response
LastResolved == outcomes # <<>> /\ outcomes[Len(outcomes)].ok

LastResponse == outcomes[Len(outcomes)].response

\* C3: when the usage report of the upstream response is missing or malformed
\* the per-call cost is exactly 0 and the request succeeds with a reply.
C3_MalformedUsageCostsZero ==
    (/\ variant \in {"cost", "multicost"}
     /\ pc = "done"
     /\ LastResolved
     /\ MalformedUsage(LastResponse.usage))
        => (res.status = 200 /\ res.kind = "reply" /\ ResponseCost = Num(0))

\* C4: in the cost variant the balance returned is never a number below 0,
\* and, once the client passes in the balance of the previous response, never
\* a number above it: so it stays 0 on every call after it reached 0.
C4_BalanceFloorMonotone ==
    (variant = "cost" /\ pc = "done" /\ res.status = 200) =>
        LET b == res.body.costs.balance
        IN  /\ b = Null \/ IsNum(b)
            /\ IsNum(b) => b.n >= 0
            /\ (client.echo /\ IsNum(b) /\ IsNum(client.balance)) => b.n <= client.balance.n

\* a priced call answered after the balance had reached 0: the balance stays 0
C4_Witness ==
    /\ variant = "cost" /\ pc = "done" /\ res.status = 200
    /\ client.echo /\ client.balance = Num(0)
    /\ IsNum(res.body.costs.last) /\ res.body.costs.last.n > 0
    /\ res.body.costs.balance = Num(0)

\* the fallback call of the request in hand was made and returned a response
FallbackSucceeded ==
    /\ variant = "cost" /\ pc = "done"
    /\ Len(outcomes) = 2
    /\ ~outcomes[1].ok /\ outcomes[1].err.status = 404
    /\ outcomes[2].ok

\* C5: after a not-found failure of the first call and a successful fallback
\* call the response names the fallback model, not the requested one, and the
\* cost is computed from the fallback model's prices (3 and 15 USD per million).
C5_FallbackModelReported ==
    FallbackSucceeded =>
        /\ res.status = 200
        /\ res.body.modelUsed = Str(<<DEFAULT_MODEL>>)
        /\ res.body.modelUsed # calls[1].model
        /\ ValidUsage(outcomes[2].response.usage) =>
            LET u == outcomes[2].response.usage
                exact == u.input_tokens.n * 300 + u.output_tokens.n * 1500
            IN  /\ IsNum(res.body.costs.last)
                /\ 2 * (res.body.costs.last.n - exact) <= 10000
                /\ 2 * (exact - res.body.costs.last.n) <= 10000

\* the fallback succeeded with a usage report that Opus would price otherwise
C5_Witness ==
    /\ FallbackSucceeded
    /\ calls[1].model = Str(<<OPUS>>)
    /\ outcomes[2].response.usage = Usage(Num(1000), Num(40))
    /\ res.body.costs.last = Num(360000)

\* the first call of the request in hand failed with status 404
FirstNotFound == outcomes # <<>> /\ ~outcomes[1].ok /\ outcomes[1].err.status = 404

\* C6 as stated: for every requested model a second upstream call is made if
\* and only if the first call failed with the not-found condition.
C6_FallbackForEveryModel ==
    (variant = "cost" /\ pc \in {"fallback", "done"}) => ((Len(calls) = 2) <=> FirstNotFound)

\* C6 amended: a second upstream call is made if and only if the first call was
\* made for the Opus model and failed with status 404; it is made once, for the
\* default model and with the same messages; every other failure of the first
\* call, and a failure of the fallback call, is answered with the generic 500
\* error and no further call.
C6_FallbackOnlyForOpus ==
    variant = "cost" =>
        /\ Len(calls) <= 2
        /\ pc \in {"fallback", "done"} =>
            ((Len(calls) = 2) <=> (FirstNotFound /\ calls[1].model = Str(<<OPUS>>)))
        /\ Len(calls) = 2 =>
            /\ calls[2].model = Str(<<DEFAULT_MODEL>>)
            /\ calls[2].messages = calls[1].messages
        /\ (pc = "done" /\ outcomes # <<>> /\ ~outcomes[Len(outcomes)].ok) =>
            /\ res = ErrorResponse(500, "Claude request failed")
            /\ Len(calls) = Len(outcomes)

\* a first call for another model failed with 404 and was not retried, and a
\* fallback call failed
C6_Witness ==
    /\ variant = "cost" /\ pc = "done"
    /\ \/ (Len(calls) = 1 /\ FirstNotFound /\ calls[1].model = Str(<<HAIKU>>))
       \/ (Len(calls) = 2 /\ ~outcomes[2].ok)
    /\ res.status = 500

\* C7 as stated: every sanitizer is idempotent.
C7_EverySanitizerIdempotent ==
    (fn.op = "sanitize" /\ fn.step = 2) => fn.twice = fn.once

\* C7 amended: the sanitizers that return turns with string content, the
\* sanitizedHistory of the stream variant and the inline filter of the plain,
\* modes and alias variants, are idempotent; sanitizeHistory and
\* normaliseHistory return turns with content-block arrays, which they do not
\* accept as their own input.
C7_StringSanitizersIdempotent ==
    (fn.op = "sanitize" /\ fn.step = 2 /\ fn.which \in {"sanitizedHistory", "inlineHistory"})
        => fn.twice = fn.once

\* the stream sanitizer has cut, dropped and trimmed turns of an array, kept
\* some, and was applied to its result
C7_Witness ==
    /\ fn.op = "sanitize" /\ fn.step = 2 /\ fn.which = "sanitizedHistory"
    /\ IsArr(fn.history) /\ Len(fn.history.a) = MaxSanLen
    /\ fn.once # fn.history
    /\ fn.once.a # <<>>
    /\ \E k \in 1..Len(fn.once.a) : fn.once.a[k] \notin {fn.history.a[j] : j \in 1..Len(fn.history.a)}
    /\ fn.twice = fn.once

\* the request in hand was forwarded upstream
Forwarded == req # NoRequest /\ calls # <<>>

\* the history array of the request in hand, as the handler receives it: the
\* JSON value, or the value parsed from the form field; <<>> for no array
InputHistory ==
    LET h == IF variant \in {"multipart", "multicost", "hardened"}
             THEN parseHistory(req.body.history)
             ELSE Default(req.body.history, Arr(<<>>))
    IN  IF IsArr(h) THEN h.a ELSE <<>>

\* an input turn the claim allows to be forwarded
ValidTurn(h) == IsObj(h) /\ h.role \in {USER, ASSISTANT} /\ IsStr(h.content)

\* the history turns of the first upstream call: all messages but the last
SentHistory == SubSeq(calls[1].messages, 1, Len(calls[1].messages) - 1)

\* C8: every history turn sent upstream has role user or assistant and comes
\* from an input turn with that role and string content; input turns with
\* another role or with content that is no string are dropped.
C8_OnlyValidHistoryForwarded ==
    Forwarded =>
        /\ \A k \in 1..Len(SentHistory) :
            /\ SentHistory[k].role \in {USER, ASSISTANT}
            /\ \E j \in 1..Len(InputHistory) :
                ValidTurn(InputHistory[j]) /\ InputHistory[j].role = SentHistory[k].role
        /\ Len(SentHistory) <= Len(SelectSeq(InputHistory, ValidTurn))

\* the variants that accept attachments, and the attachments of the request
AttachVariants == {"modes", "multipart", "multicost", "hardened"}

InputAttachments ==
    LET a == IF variant = "modes" THEN Field(req.body, "attachments") ELSE req.files
    IN  IF IsArr(a) THEN a.a ELSE <<>>

\* the blocks the handler of the variant puts in the user turn for one attachment
BlocksOf(file) ==
    CASE variant = "modes" -> attachBlocks(file)
      [] variant = "hardened" -> hardenedFileBlocks(file)
      [] OTHER -> fileBlocks(file)

\* the MIME type of an attachment
TypeOf(file) == IF variant = "modes" THEN file.type ELSE file.mimetype

\* a reason of type to drop an attachment: it is no image, and it is no text
\* document the variant reads
TypeReason(file) ==
    /\ ~(IsStr(TypeOf(file)) /\ IsImageMime(TypeOf(file)))
    /\ variant = "modes" => ~IsStr(file.content)

\* C9: every attachment of a forwarded request yields exactly one image block,
\* or exactly one text block, or is dropped for a reason of size or type: none
\* yields two blocks and none vanishes without such a reason.
C9_AttachmentClassifiedOnce ==
    (Forwarded /\ variant \in AttachVariants) =>
        \A k \in 1..Len(InputAttachments) :
            LET file == InputAttachments[k]
            IN  /\ Len(BlocksOf(file)) <= 1
                /\ Len(BlocksOf(file)) = 0 => TypeReason(file)

\* the message of the request in hand under the first name that holds one
EffectiveMessage ==
    Or(Field(req.body, "message"), Or(Field(req.body, "prompt"),
       Or(Field(req.body, "input"), Or(Field(req.body, "content"),
          Or(Field(req.body, "text"), Str(<<>>))))))

\* the content of the current user turn of the first upstream call
SentContent == calls[1].messages[Len(calls[1].messages)].content

Placeholder == TextBlock(Str(<<" ">>))

\* no attachment of the request in hand yields a block
NoAttachmentBlock ==
    \/ variant \notin AttachVariants
    \/ \A k \in 1..Len(InputAttachments) : BlocksOf(InputAttachments[k]) = <<>>

\* C10: the content of the user turn sent upstream is never empty; for a blank
\* message with no attachment block it is exactly one text block holding one
\* space, and no such block is added when another block exists.
C10_UserContentNeverEmpty ==
    Forwarded =>
        /\ IsStr(SentContent) => SentContent.s # <<>>
        /\ IsArr(SentContent) => SentContent.a # <<>>
        /\ (Blank(EffectiveMessage) /\ NoAttachmentBlock) =>
               SentContent = Arr(<<Placeholder>>)
        /\ (IsArr(SentContent) /\ Len(SentContent.a) > 1) =>
               \A k \in 1..Len(SentContent.a) :
                   SentContent.a[k] = Placeholder => EffectiveMessage = Str(<<" ">>)

\* the static model table of the variant: the identifiers it may pass upstream
ModelTable ==
    CASE variant \in {"cost", "multipart", "multicost", "hardened"} ->
             {Str(<<id>>) : id \in MODELS}
      [] variant = "alias" -> {MODEL_MAP[k] : k \in DOMAIN MODEL_MAP}
      [] variant = "modes" -> {THINKING_MODES[k].model : k \in DOMAIN THINKING_MODES}
      [] variant = "plain" -> {Str(<<PLAIN_MODEL>>)}
      [] variant = "stream" -> {Str(<<STREAM_MODEL>>)}

\* the default tier of the variant
DefaultTier ==
    CASE variant \in {"cost", "multipart", "multicost", "hardened"} -> Str(<<DEFAULT_MODEL>>)
      [] variant = "alias" -> MODEL_MAP["sonnet"]
      [] variant = "modes" -> THINKING_MODES["balanced"].model
      [] variant = "plain" -> Str(<<PLAIN_MODEL>>)
      [] variant = "stream" -> Str(<<STREAM_MODEL>>)

\* the selector of the request in hand: model, or thinkingMode in the modes variant
Selector ==
    IF variant = "modes" THEN Field(req.body, "thinkingMode") ELSE Field(req.body, "model")

\* the selector names an entry of the variant's table that is enabled
SelectorResolves ==
    CASE variant \in {"cost", "multipart", "multicost", "hardened"} ->
             IsStr(Selector) /\ Selector \in ModelTable
      [] variant = "alias" -> PropertyKey(Selector) \in DOMAIN MODEL_MAP
      [] variant = "modes" ->
             /\ PropertyKey(Selector) \in DOMAIN THINKING_MODES
             /\ (Selector = Str(<<"deep">>) => env.ALLOW_DEEP)
      [] OTHER -> FALSE

\* C11: the model identifier of every upstream call is an entry of the
\* variant's static model table, and a selector that is missing, unknown or
\* disabled is replaced by the default tier.
C11_ModelFromStaticTable ==
    Forwarded =>
        /\ \A k \in 1..Len(calls) : calls[k].model \in ModelTable
        /\ ~SelectorResolves => calls[1].model = DefaultTier

\* the variants that answer every outcome with status 200
Always200 == {"plain", "modes", "alias"}

\* C12: in the always-200 variants the handler sends one response, when it
\* finishes and not before, with status 200 and a string reply, whatever the
\* outcome: an invalid message, an upstream fault, a response with no text.
C12_AlwaysStatus200 ==
    variant \in Always200 =>
        /\ pc # "done" => res = NoResponse
        /\ pc = "done" =>
            /\ res.status = 200
            /\ res.kind = "reply"
            /\ IsStr(res.body.reply) /\ res.body.reply.s # <<>>

\* an upstream fault of the plain variant was answered with the apology
C12_Witness ==
    /\ variant = "plain" /\ pc = "done"
    /\ outcomes # <<>> /\ ~outcomes[1].ok
    /\ res.status = 200
    /\ res.body.reply = Str(<<"Sorry, something went wrong.">>)

\* the variants that answer a fault with an error status
Strict == {"cost", "multipart", "multicost", "hardened"}

\* the response in hand has a status outside 200..299 and an {error} body
IsErrorResponse ==
    /\ res.status \notin 200..299
    /\ res.kind = "error"
    /\ "error" \in DOMAIN res.body

\* C13: in the strict variants an empty request and an upstream fault are
\* answered with a non-2xx status and an {error} body, and a 2xx response is
\* sent only after a successful upstream call for a request that is not empty.
C13_StrictErrors ==
    (variant \in Strict /\ pc = "done") =>
        /\ (EmptyMessage /\ NoAttachments) => IsErrorResponse
        /\ (outcomes # <<>> /\ ~outcomes[Len(outcomes)].ok) => IsErrorResponse
        /\ res.status \in 200..299 => (LastResolved /\ ~(EmptyMessage /\ NoAttachments))

\* the upstream call in flight was aborted
Aborted == outcomes # <<>> /\ outcomes[Len(outcomes)] = Rejected([status |-> "abort"])

\* C14: when the client disconnects while the upstream call of its request is
\* in flight, that call is aborted: it does not run to a response or to an
\* upstream error of its own.
C14_AbortOnDisconnect ==
    (client.gone /\ pc \in {"done", "rejected"}) => Aborted

\* a cost figure of a response is null or a whole number of units of 10^-d USD
Decimals(v, d) ==
    v = Null \/ (IsNum(v) /\ v.n % (IF d = 4 THEN 10000 ELSE 1000000) = 0)

\* the cost variant has answered with its cost figures
CostAnswered == variant = "cost" /\ pc = "done" /\ res.status = 200

\* C15 as stated: costs.last has 4 decimal places, costs.session and
\* costs.balance have 2.
C15_CumulativeTwoDecimals ==
    CostAnswered =>
        /\ Decimals(res.body.costs.last, 4)
        /\ Decimals(res.body.costs.session, 2)
        /\ Decimals(res.body.costs.balance, 2)

\* C15 amended: costs.last, costs.session and costs.balance are all rounded to
\* 4 decimal places.
C15_AllFourDecimals ==
    CostAnswered =>
        /\ Decimals(res.body.costs.last, 4)
        /\ Decimals(res.body.costs.session, 4)
        /\ Decimals(res.body.costs.balance, 4)

\* figures with more than 4 places were passed in and a priced call was
\* added: the cumulative figures come back with 4 places, not 2
C15_Witness ==
    /\ CostAnswered
    /\ req.body.sessionCost = Num(4000) /\ req.body.balance = Num(6000)
    /\ res.body.costs.last = Num(360000)
    /\ res.body.costs.session = Num(360000)
    /\ res.body.costs.balance = Num(0)

\* an attachment that is an image, and the payload its image block carries
IsImage(file) == IsStr(TypeOf(file)) /\ IsImageMime(TypeOf(file))

PayloadOf(file) == IF variant = "modes" THEN file.base64 ELSE Base64(file.buffer)

\* the message of the request in hand is present, a text, and not blank
MessagePresent == IsStr(EffectiveMessage) /\ trim(EffectiveMessage.s) # <<>>

\* C16: the content of the user turn sent upstream is the message text block,
\* when the message is present and not blank, followed by exactly one block per
\* attachment in input order: an image block with the MIME type and the base64
\* payload for an image, a text block for any other attachment.  (The single
\* placeholder block of an otherwise empty turn is left to C10.)
C16_ContentOrdered ==
    (Forwarded /\ variant \in AttachVariants /\ IsArr(SentContent)
        /\ ~(~MessagePresent /\ InputAttachments = <<>> /\ SentContent = Arr(<<Placeholder>>)))
    => LET c == SentContent.a
           m == IF MessagePresent THEN 1 ELSE 0
       IN  /\ Len(c) = m + Len(InputAttachments)
           /\ m = 1 =>
               /\ c[1].type = "text"
               /\ c[1].text \in {EffectiveMessage, Str(trim(EffectiveMessage.s))}
           /\ \A k \in 1..Len(InputAttachments) :
               LET file == InputAttachments[k]
               IN  IF IsImage(file)
                   THEN c[m + k] = ImageBlock(TypeOf(file), PayloadOf(file))
                   ELSE c[m + k].type = "text"

\* the response of the cost variant to a request handled alone, given the
\* outcomes of its upstream calls in order
AloneResponse(body, outs) ==
    LET m == Default(body.model, Str(<<DEFAULT_MODEL>>))
        first == IF Truthy(Lookup(PRICING, PropertyKey(m))) THEN m ELSE Str(<<DEFAULT_MODEL>>)
    IN  IF ~Truthy(body.message) \/ ~IsStr(body.message)
        THEN ErrorResponse(400, "Message is required")
        ELSE IF outs[1].ok THEN CostResponse(first, outs[1].response, body)
        ELSE IF first = Str(<<OPUS>>) /\ outs[1].err.status = 404 /\ Len(outs) = 2
                 /\ outs[2].ok
        THEN CostResponse(Str(<<DEFAULT_MODEL>>), outs[2].response, body)
        ELSE ErrorResponse(500, "Claude request failed")

\* C17: concurrent requests are independent: whatever the interleaving of the
\* handlers' steps and the order in which the upstream calls complete, the
\* response of each request is the one it gets when handled alone, and a
\* request that is not answered yet has no response.
C17_ConcurrentRequestsIndependent ==
    \A i \in Reqs :
        /\ pc[i] = "done" => res[i] = AloneResponse(req[i].body, outcomes[i])
        /\ pc[i] # "done" => res[i] = NoResponse

\* request 1 arrived first, asked for Opus and was answered by the fallback
\* after request 2, which asked for Haiku while request 1 was in flight
C17_Witness ==
    /\ client.arrived = <<1, 2>> /\ client.answered = <<2, 1>>
    /\ req[1].body.model = Str(<<OPUS>>) /\ Len(outcomes[1]) = 2
    /\ req[2].body.model = Str(<<HAIKU>>)
    /\ res[1].status = 200 /\ res[1].body.modelUsed = Str(<<DEFAULT_MODEL>>)
    /\ res[2].status = 200 /\ res[2].body.modelUsed = Str(<<HAIKU>>)

\* how often the terminator 'data: [DONE]' was written to the event stream,
\* before or after res.end()
Terminators ==
    Len(SelectSeq(res.writes, LAMBDA chunk : chunk = "[DONE]"))
        + Len(SelectSeq(res.late, LAMBDA chunk : chunk = "[DONE]"))

\* C18: in the streaming variant, whatever the order of the stream's text,
\* error and end events, the client's close and the settling of
\* finalMessage(), the response is ended once, the terminator is written
\* once, and nothing is written after the response has ended.
C18_StreamEndedOnce ==
    (variant = "stream" /\ res.kind = "sse") =>
        /\ res.ends <= 1
        /\ Terminators <= 1
        /\ res.late = <<>>
        /\ pc = "done" => (res.ends = 1 /\ Terminators = 1)

\* the figures of the request in hand as the handler reads them
SessionIn == ToNumber(Default(req.body.sessionCost, Num(0)))
BalanceIn == ToNumber(Default(req.body.balance, Num(DEFAULT_BALANCE)))

\* C19: in the cost variant, for every successful call with numeric
\* sessionCost and balance whose balance is not clamped (balance >= costs.last),
\* the amount added to the session cost and the amount removed from the
\* balance both equal costs.last, so that costs.session + costs.balance equals
\* sessionCost + balance.
C19_SessionPlusBalanceConserved ==
    (/\ CostAnswered
     /\ IsNum(req.body.sessionCost) /\ IsNum(req.body.balance)
     /\ ~(IsNum(res.body.costs.last) /\ req.body.balance.n < res.body.costs.last.n))
    => /\ IsNum(res.body.costs.last)
       /\ IsNum(res.body.costs.session) /\ IsNum(res.body.costs.balance)
       /\ res.body.costs.session.n - req.body.sessionCost.n = res.body.costs.last.n
       /\ req.body.balance.n - res.body.costs.balance.n = res.body.costs.last.n
       /\ res.body.costs.session.n + res.body.costs.balance.n
              = req.body.sessionCost.n + req.body.balance.n

====
